---- MODULE Spec2Model ----
(***************************************************************************)
(* cwatch (src/src/cwatch.c): the watch table list_wd, the symbolic-link   *)
(* references hung on its entries, the traversal watch(), the removals     *)
(* unwatch() / unwatch_symbolic_link(), and the decode/dispatch loop       *)
(* monitor(), running against a small file system and an inotify kernel    *)
(* queue.                                                                  *)
(*                                                                         *)
(* A path is the sequence of its tokens: "/" and the names between them,   *)
(* so that strcat is \o and strncmp is a comparison of prefixes.           *)
(* A list of list.h is a sequence: list_push appends, list_pop takes the   *)
(* head, list_remove deletes one element and the scan that called it goes  *)
(* on with the element that followed.                                      *)
(***************************************************************************)
EXTENDS Integers, Sequences, FiniteSets, TLC

VARIABLES
    dirs,            \* file system: the directories that exist (canonical paths)
    links,           \* file system: symbolic link path -> its target, or NoLink
    kwatch,          \* kernel: watch descriptor -> path of the watched directory
    next_wd,         \* kernel: the next watch descriptor it hands out
    queue,           \* kernel: notification records not read yet
    root_path,       \* -d DIRECTORY
    recursive_flag,  \* -r
    nosymlink_flag,  \* -n
    exclude_regex,   \* -x: the names the expression matches ({} when NULL)
    refused,         \* kernel: the directories it grants no new watch for
    closed,          \* file system: the directories the process may not read
    user_catch_regex, \* -X: [null, names], the names the expression matches
    inline_flag,     \* -c: execute_command is execute_command_inline (else -F)
    list_wd,         \* the watch table: sequence of WD_DATA
    buffer,          \* monitor(): the records of the last read
    len,             \* monitor(): bytes returned by the last read
    i,               \* monitor(): index into buffer
    pc,              \* "main", "read", "decode", "exit" (exit(1)) or "hung"
    last,            \* the record monitor() processed last and what it did
    trace,           \* the records processed since the last read, in order
    children,        \* the processes fork() made that are followed, in order
    ops              \* events of the environment so far

vars == <<dirs, links, kwatch, next_wd, queue, refused, closed, root_path,
          recursive_flag, nosymlink_flag, exclude_regex, user_catch_regex,
          inline_flag, list_wd, buffer, len, i, pc, last, trace, children, ops>>

fsvars == <<dirs, links>>
cfgvars == <<root_path, recursive_flag, nosymlink_flag, exclude_regex, refused, closed,
             user_catch_regex, inline_flag>>
loopvars == <<buffer, len, i, last, trace>>

(***************************************************************************)
(* Bounds of the model.                                                    *)
(***************************************************************************)
\* events of the environment in one run: file-system operations, failed
\* reads, queue overflows, bytes no read delivered that look like a record
MaxOps == 2
\* processes made by fork() that the model follows; later ones are left alone
MaxChildren == 1
\* queue steps of one watch() call before the traversal is given up as endless
MaxSteps == 40

(***************************************************************************)
(* Strings.                                                                *)
(***************************************************************************)
strlen(s) == Len(s)

Min(a, b) == IF a <= b THEN a ELSE b

\* the first n characters of s, or all of s when it is shorter
strn(s, n) == SubSeq(s, 1, Min(n, Len(s)))

\* strncmp(a, b, n) == 0
strncmp0(a, b, n) == strn(a, n) = strn(b, n)

\* strcmp(a, b) == 0
strcmp0(a, b) == a = b

is_child_of(child, parent) ==
    IF strlen(parent) > strlen(child)
    THEN FALSE
    ELSE strncmp0(child, parent, strlen(parent))

RECURSIVE exists(_, _)
exists(child_path, parents) ==
    IF parents = <<>>
    THEN FALSE
    ELSE IF is_child_of(child_path, Head(parents))
         THEN TRUE
         ELSE exists(child_path, Tail(parents))

excluded(str) == str \in exclude_regex

(***************************************************************************)
(* The file system the program runs on.                                    *)
(***************************************************************************)
DirA == <<"/", "a", "/">>
DirO == <<"/", "o", "/">>
DirW == DirA \o <<"w", "/">>
DirWD == DirW \o <<"d", "/">>
DirWE == DirW \o <<"e", "/">>
DirWDS == DirWD \o <<"s", "/">>
DirWES == DirWE \o <<"s", "/">>
DirOS == DirO \o <<"s", "/">>

\* directories that exist in every state
FixedDirs == {DirA, DirO}
\* every directory that may exist
DirU == FixedDirs \cup {DirW, DirWD, DirWE, DirWDS, DirWES, DirOS}

LnkWL == DirW \o <<"l">>
LnkWM == DirW \o <<"m">>
LnkWDL == DirWD \o <<"l">>
LnkWEL == DirWE \o <<"l">>
LnkOL == DirO \o <<"l">>

\* every place a symbolic link may be
LinkU == {LnkWL, LnkWM, LnkWDL, LnkWEL, LnkOL}
\* what a symbolic link may point to
TargetU == {DirA, DirO, DirW, DirWD, DirOS}
NoLink == <<>>
\* the targets tried for the link at l
TargetsOf(l) ==
    CASE l = LnkWL -> {DirO, DirA, DirWD}
      [] l = LnkWM -> {DirO, DirOS, DirW}
      [] l = LnkOL -> {DirA, DirOS}
      [] OTHER -> {DirWD, DirO}

\* the names that -x may match
ExcludeChoices == {{}, {"e", "m"}}

\* user_catch_regex == NULL, and an expression that matches the names d and l
NoCatch == [null |-> TRUE, names |-> {}]
CatchDL == [null |-> FALSE, names |-> {"d", "l"}]

\* the runs tried: <<-r, -n, -x, the directories the kernel refuses to watch,
\* the directories that may not be read, -X, -c>>
Configs ==
    {<<TRUE, FALSE, {}, {}, {}, NoCatch, FALSE>>,
     <<TRUE, FALSE, {"e", "m"}, {}, {}, NoCatch, FALSE>>,
     <<TRUE, TRUE, {}, {}, {}, NoCatch, FALSE>>,
     <<FALSE, FALSE, {}, {}, {}, NoCatch, FALSE>>,
     <<TRUE, FALSE, {}, {DirO}, {}, NoCatch, FALSE>>,
     <<TRUE, FALSE, {}, {DirA}, {}, NoCatch, FALSE>>,
     <<TRUE, FALSE, {}, {DirWD}, {}, NoCatch, FALSE>>,
     <<TRUE, FALSE, {}, {}, {DirWD}, NoCatch, FALSE>>,
     <<TRUE, FALSE, {}, {}, {}, CatchDL, FALSE>>,
     <<FALSE, FALSE, {}, {}, {}, NoCatch, TRUE>>}

\* the directory trees the program is started on
InitTrees ==
    {FixedDirs \cup {DirW},
     FixedDirs \cup {DirW, DirWD, DirWDS, DirOS}}

\* dirname, with its closing "/", and basename of a directory or link path
ParentOf(p) == IF p[Len(p)] = "/" THEN SubSeq(p, 1, Len(p) - 2) ELSE SubSeq(p, 1, Len(p) - 1)
NameOf(p) == IF p[Len(p)] = "/" THEN p[Len(p) - 1] ELSE p[Len(p)]

\* p is d or below d (both directories)
Under(p, d) == Len(d) <= Len(p) /\ SubSeq(p, 1, Len(d)) = d

\* readdir() order of the names of one directory
NameOrder == <<"d", "e", "l", "m", "s", "w">>

SubdirNames(p) == {NameOf(q) : q \in {r \in dirs : Len(r) = Len(p) + 2 /\ ParentOf(r) = p}}
LinkNames(p) == {NameOf(q) : q \in {r \in LinkU : links[r] # NoLink /\ ParentOf(r) = p}}

\* opendir(p) != NULL; a symbolic link is followed; EACCES without permission
opendir(p) ==
    \/ p \in dirs \ closed
    \/ p \in LinkU /\ links[p] # NoLink /\ links[p] \in dirs \ closed

\* realpath(3) of a path that resolves, followed by strcat(resolved, "/")
resolve_real_path(path) == IF path \in LinkU THEN links[path] ELSE path

\* the entries readdir() returns for p besides "." and "..": <<d_name, d_type>>
readdir(p) ==
    LET Pick(k) ==
            IF NameOrder[k] \in SubdirNames(p) THEN <<[d_name |-> NameOrder[k], d_type |-> "DT_DIR"]>>
            ELSE IF NameOrder[k] \in LinkNames(p) THEN <<[d_name |-> NameOrder[k], d_type |-> "DT_LNK"]>>
            ELSE <<>>
        Cat[k \in 0..Len(NameOrder)] == IF k = 0 THEN <<>> ELSE Cat[k - 1] \o Pick(k)
    IN  Cat[Len(NameOrder)]

(***************************************************************************)
(* The inotify kernel service.  A notification record is                   *)
(* [wd, mask, isdir, name, len]: mask is the name of its event bit, isdir  *)
(* its IN_ISDIR bit, len the size of its name field.                       *)
(***************************************************************************)
\* sizeof(struct inotify_event)
EVENT_SIZE == 16
\* the kernel pads the name field of a record to a multiple of this
NAME_PAD == 16

event_len(name) == IF name = "" THEN 0 ELSE NAME_PAD

Record(wd, mask, isdir, name) ==
    [wd |-> wd, mask |-> mask, isdir |-> isdir, name |-> name, len |-> event_len(name)]

\* the records the kernel queues for an event in directory p: one per watch on p
Notify(kw, p, mask, isdir, name) ==
    IF \E w \in DOMAIN kw : kw[w] = p
    THEN <<Record(CHOOSE w \in DOMAIN kw : kw[w] = p, mask, isdir, name)>>
    ELSE <<>>

\* st is the part of the state a handler works on:
\* [list_wd, kwatch, next_wd, queue, calls].
\* The call fails with ENOENT when the directory is gone, with EACCES when it
\* may not be read, and with ENOSPC or ENOMEM when the kernel grants no new
\* watch (max_user_watches is reached).
inotify_add_watch(st, path) ==
    IF path \notin dirs \ closed
    THEN [st |-> st, wd |-> -1]
    ELSE IF \E w \in DOMAIN st.kwatch : st.kwatch[w] = path
    THEN [st |-> st, wd |-> CHOOSE w \in DOMAIN st.kwatch : st.kwatch[w] = path]
    ELSE IF path \in refused
    THEN [st |-> st, wd |-> -1]
    ELSE [st |-> [st EXCEPT !.kwatch = st.next_wd :> path @@ st.kwatch,
                            !.next_wd = st.next_wd + 1],
          wd |-> st.next_wd]

inotify_rm_watch(st, wd) ==
    IF wd \in DOMAIN st.kwatch
    THEN [st EXCEPT !.kwatch = [w \in DOMAIN st.kwatch \ {wd} |-> st.kwatch[w]],
                    !.queue = Append(st.queue, Record(wd, "ignored", FALSE, ""))]
    ELSE st

(***************************************************************************)
(* The watch table.  A node of a list is its position; 0 is NULL.          *)
(***************************************************************************)
list_remove(list, node) ==
    SubSeq(list, 1, node - 1) \o SubSeq(list, node + 1, Len(list))

FirstIndex(S) == IF S = {} THEN 0 ELSE CHOOSE k \in S : \A j \in S : k <= j

get_node_from_path(lw, path) ==
    FirstIndex({k \in 1..Len(lw) : strcmp0(path, lw[k].path)})

get_node_from_wd(lw, wd) ==
    FirstIndex({k \in 1..Len(lw) : wd = lw[k].wd})

create_wd_data(real_path, wd) ==
    [wd |-> wd, path |-> real_path, links |-> <<>>]

\* create_link_data with no back-reference
create_link_data_unbound(symlink, wd_data) ==
    [path |-> symlink, wd_data |-> <<>>]

create_link_data(symlink, wd_data) ==
    [path |-> symlink, wd_data |-> wd_data.path]

\* the position of the link in its entry's list, 0 when the entry has no such link
get_link_data_from_wd_data(symlink, wd_data) ==
    FirstIndex({k \in 1..Len(wd_data.links) : strcmp0(wd_data.links[k].path, symlink)})

\* <<node of list_wd, node of its links>>, <<0, 0>> when no entry has the link
get_link_node_from_path(lw, symlink) ==
    LET n == FirstIndex({k \in 1..Len(lw) : get_link_data_from_wd_data(symlink, lw[k]) # 0})
    IN  IF n = 0 THEN <<0, 0>> ELSE <<n, get_link_data_from_wd_data(symlink, lw[n])>>

get_link_data_from_path(lw, symlink) == get_link_node_from_path(lw, symlink)

NULL == <<0, 0>>

\* lines 694-714: the path is not in the table; added is what inotify_add_watch
\* gave.  st.logged says that the call wrote a message (printf or log_message)
push_wd_data(added, real_path) ==
    IF added.wd = -1
    THEN [st |-> [added.st EXCEPT !.logged = TRUE], node |-> 0]
    ELSE [st |-> [added.st EXCEPT !.list_wd =
                     Append(@, create_wd_data(real_path, added.wd)),
                                  !.logged = TRUE],
          node |-> Len(added.st.list_wd) + 1]

\* find_or_push without the look-up of line 689: every call registers
find_or_push_unchecked(st, real_path, found) ==
    push_wd_data(inotify_add_watch(st, real_path), real_path)

\* lines 689-715: found is get_node_from_path(real_path)
find_or_push(st, real_path, found) ==
    IF found # 0
    THEN [st |-> st, node |-> found]
    ELSE push_wd_data(inotify_add_watch(st, real_path), real_path)

\* lines 717-732: r is [st, node]; symlink = NoLink stands for a NULL symlink
push_link_data(r, symlink) ==
    IF r.node # 0 /\ symlink # NoLink
    THEN [st |-> [r.st EXCEPT !.list_wd[r.node].links =
                     Append(@, create_link_data(symlink, r.st.list_wd[r.node])),
                              !.logged = TRUE],
          node |-> r.node]
    ELSE r

add_to_watch_list(st, real_path, symlink) ==
    push_link_data(find_or_push(st, real_path, get_node_from_path(st.list_wd, real_path)),
                   symlink)

(***************************************************************************)
(* watch(): breadth-first traversal.                                       *)
(***************************************************************************)
\* list_push(list, path) after add_to_watch_list returned r
push_path(r, list, path) == [st |-> r.st, list |-> Append(list, path)]

\* list_push(list, real_path) at line 673; known says that real_path had an
\* entry before add_to_watch_list was called, and st.requeued that the
\* traversal queued a link target that already had its entry
push_target(r, list, real_path, known) ==
    [st |-> IF known THEN [r.st EXCEPT !.requeued = TRUE] ELSE r.st,
     list |-> Append(list, real_path)]

\* watch_dirent that follows symbolic links whatever nosymlink_flag is
watch_dirent_links(acc, p, dir) ==
    IF dir.d_type = "DT_DIR" /\ excluded(dir.d_name)
    THEN acc
    ELSE IF dir.d_type = "DT_DIR"
    THEN IF recursive_flag
         THEN push_path(add_to_watch_list(acc.st, p \o <<dir.d_name>> \o <<"/">>, NoLink),
                        acc.list, p \o <<dir.d_name>> \o <<"/">>)
         ELSE acc
    ELSE IF dir.d_type = "DT_LNK"
    THEN IF get_link_data_from_path(acc.st.list_wd, p \o <<dir.d_name>>) # NULL
         THEN acc
         ELSE IF opendir(resolve_real_path(p \o <<dir.d_name>>)) /\ recursive_flag
         THEN push_target(add_to_watch_list(acc.st, resolve_real_path(p \o <<dir.d_name>>),
                                            p \o <<dir.d_name>>),
                          acc.list, resolve_real_path(p \o <<dir.d_name>>),
                          get_node_from_path(acc.st.list_wd,
                                             resolve_real_path(p \o <<dir.d_name>>)) # 0)
         ELSE acc
    ELSE acc

\* one entry of the directory p: acc is [st, list], list the traversal queue
watch_dirent(acc, p, dir) ==
    IF dir.d_type = "DT_DIR" /\ excluded(dir.d_name)
    THEN acc
    ELSE IF dir.d_type = "DT_DIR"
    THEN IF recursive_flag
         THEN push_path(add_to_watch_list(acc.st, p \o <<dir.d_name>> \o <<"/">>, NoLink),
                        acc.list, p \o <<dir.d_name>> \o <<"/">>)
         ELSE acc
    ELSE IF dir.d_type = "DT_LNK" /\ ~nosymlink_flag
    THEN IF get_link_data_from_path(acc.st.list_wd, p \o <<dir.d_name>>) # NULL
         THEN acc
         ELSE IF opendir(resolve_real_path(p \o <<dir.d_name>>)) /\ recursive_flag
         THEN push_target(add_to_watch_list(acc.st, resolve_real_path(p \o <<dir.d_name>>),
                                            p \o <<dir.d_name>>),
                          acc.list, resolve_real_path(p \o <<dir.d_name>>),
                          get_node_from_path(acc.st.list_wd,
                                             resolve_real_path(p \o <<dir.d_name>>)) # 0)
         ELSE acc
    ELSE acc

RECURSIVE watch_readdir(_, _, _)
watch_readdir(acc, p, entries) ==
    IF entries = <<>>
    THEN acc
    ELSE watch_readdir(watch_dirent(acc, p, Head(entries)), p, Tail(entries))

\* the while loop of watch(): seen holds the loop states met so far; the loop is
\* deterministic, so a state met twice is met for ever
RECURSIVE watch_loop(_, _, _, _)
watch_next(acc, seen, steps) == watch_loop(acc.st, acc.list, seen, steps)

watch_loop(st, list, seen, steps) ==
    IF list = <<>>
    THEN [st |-> st, ret |-> 0, status |-> "ok"]
    ELSE IF ~opendir(Head(list))
    THEN [st |-> [st EXCEPT !.logged = TRUE], ret |-> -1, status |-> "exit"]
    ELSE IF <<st, list>> \in seen \/ steps >= MaxSteps
    THEN [st |-> st, ret |-> -1, status |-> "hung"]
    ELSE watch_next(watch_readdir([st |-> st, list |-> Tail(list)], Head(list),
                                  readdir(Head(list))),
                    seen \cup {<<st, list>>}, steps + 1)

\* lines 608-684: added is what add_to_watch_list(real_path, symlink) returned
watch_from(added, real_path) ==
    IF added.node = 0
    THEN [st |-> added.st, ret |-> -1, status |-> "ok"]
    ELSE watch_loop(added.st, <<real_path>>, {}, 0)

watch(st, real_path, symlink) ==
    watch_from(add_to_watch_list(st, real_path, symlink), real_path)

(***************************************************************************)
(* unwatch() and the reclamation of orphans.                               *)
(***************************************************************************)
RECURSIVE list_of_referenced_path_from(_, _, _, _)
list_of_referenced_path_from(lw, path, node, tmp_references_list) ==
    IF node > Len(lw)
    THEN tmp_references_list
    ELSE IF /\ lw[node].links # <<>>
            /\ \/ strncmp0(path, lw[node].path, strlen(path))
               \/ strncmp0(path, lw[node].path, strlen(lw[node].path))
            /\ ~exists(lw[node].path, tmp_references_list)
    THEN list_of_referenced_path_from(lw, path, node + 1,
                                      Append(tmp_references_list, lw[node].path))
    ELSE list_of_referenced_path_from(lw, path, node + 1, tmp_references_list)

\* list_of_referenced_path that collects nothing
list_of_referenced_path_none(lw, path) == <<>>

list_of_referenced_path(lw, path) == list_of_referenced_path_from(lw, path, 1, <<>>)

\* is_orphan without the comparison with root_path of line 836
is_orphan_any(wd_data, path, references_list) ==
    /\ wd_data.links = <<>>
    /\ is_child_of(wd_data.path, path)
    /\ ~exists(wd_data.path, references_list)

\* the test of remove_orphan_watched_resources on one entry
is_orphan(wd_data, path, references_list) ==
    /\ ~strcmp0(root_path, wd_data.path)
    /\ wd_data.links = <<>>
    /\ is_child_of(wd_data.path, path)
    /\ ~exists(wd_data.path, references_list)

\* log_message("UNWATCHING: ..."); inotify_rm_watch(fd, wd_data->wd);
\* list_remove(list_wd, node)
release(st, node) ==
    [inotify_rm_watch(st, st.list_wd[node].wd) EXCEPT !.list_wd = list_remove(st.list_wd, node),
                                                      !.logged = TRUE]

RECURSIVE remove_orphan_from(_, _, _, _)
remove_orphan_from(st, path, references_list, node) ==
    IF node > Len(st.list_wd)
    THEN st
    ELSE IF is_orphan(st.list_wd[node], path, references_list)
    THEN remove_orphan_from(release(st, node), path, references_list, node)
    ELSE remove_orphan_from(st, path, references_list, node + 1)

remove_orphan_watched_resources(st, path, references_list) ==
    remove_orphan_from(st, path, references_list, 1)

\* reclamation that does not look at the entry's links or at root_path
reclaim_orphans_always(st, wd_data) ==
    remove_orphan_watched_resources(st, wd_data.path,
                                    list_of_referenced_path(st.list_wd, wd_data.path))

\* lines 873-881: st is the state after list_remove(wd_data->links, link_node)
reclaim_orphans(st, wd_data) ==
    IF wd_data.links = <<>> /\ ~is_child_of(wd_data.path, root_path)
    THEN remove_orphan_watched_resources(st, wd_data.path,
                                         list_of_referenced_path(st.list_wd, wd_data.path))
    ELSE st

\* log_message("UNWATCHING SYMBOLIC LINK: ..."); list_remove(wd_data->links, link_node)
remove_link(st, link_node) ==
    [st EXCEPT !.list_wd[link_node[1]].links = list_remove(@, link_node[2]),
               !.logged = TRUE]

\* st.calls records every call: its link, its entry, whether the entry was
\* reclaimed, and the table before and after
called(st, link_node, after) ==
    [after EXCEPT !.calls =
        Append(@, [link |-> st.list_wd[link_node[1]].links[link_node[2]].path,
                   path |-> st.list_wd[link_node[1]].path,
                   reclaim |-> /\ Len(st.list_wd[link_node[1]].links) = 1
                               /\ ~is_child_of(st.list_wd[link_node[1]].path, root_path),
                   pre |-> st.list_wd,
                   post |-> after.list_wd])]

unwatch_removed(st1, link_node) == reclaim_orphans(st1, st1.list_wd[link_node[1]])

\* link_node is <<node of list_wd, node of its links>>
unwatch_symbolic_link(st, link_node) ==
    called(st, link_node, unwatch_removed(remove_link(st, link_node), link_node))

\* the DT_LNK entries of a directory, as absolute link paths
links_in(resolved_path) ==
    LET ents == readdir(resolved_path)
        Cat[k \in 0..Len(ents)] ==
            IF k = 0 THEN <<>>
            ELSE IF ents[k].d_type = "DT_LNK"
                 THEN Append(Cat[k - 1], resolved_path \o <<ents[k].d_name>>)
                 ELSE Cat[k - 1]
    IN  Cat[Len(ents)]

\* the while loop of unwatch(path, TRUE)
RECURSIVE unwatch_links(_, _)
unwatch_link(st, list, link_node, resolved_path) ==
    IF ~opendir(resolved_path)
    THEN unwatch_links(st, Tail(list))
    ELSE unwatch_links(unwatch_symbolic_link(st, link_node),
                       Tail(list) \o links_in(resolved_path))

unwatch_popped(st, list, link_node) ==
    IF link_node = NULL
    THEN unwatch_links(st, Tail(list))
    ELSE unwatch_link(st, list, link_node,
                      st.list_wd[link_node[1]].links[link_node[2]].wd_data)

unwatch_links(st, list) ==
    IF list = <<>>
    THEN st
    ELSE unwatch_popped(st, list, get_link_node_from_path(st.list_wd, Head(list)))

\* unwatch(path, FALSE) that releases the last entry when path has none
unwatch_node_last(st, node) ==
    IF st.list_wd = <<>> THEN st
    ELSE release(st, IF node # 0 THEN node ELSE Len(st.list_wd))

unwatch_node(st, node) == IF node # 0 THEN release(st, node) ELSE st

unwatch(st, path, is_link) ==
    IF ~is_link
    THEN unwatch_node(st, get_node_from_path(st.list_wd, path))
    ELSE unwatch_links(st, <<path>>)

(***************************************************************************)
(* Event handlers: [st, ret, status], status "exit" when the handler ended *)
(* the process and "hung" when it never returns.                           *)
(***************************************************************************)
Returned(st) == [st |-> st, ret |-> 0, status |-> "ok"]

\* the handler ignores what watch() returned and returns 0
Watched(r) == [st |-> r.st, ret |-> 0, status |-> r.status]

event_handler_undefined(st, event, path) == Returned(st)

\* event_handler_create without the test of recursive_flag
event_handler_create_always(st, event, path) ==
    IF event.isdir
    THEN Watched(watch(st, path, NoLink))
    ELSE IF ~nosymlink_flag /\ opendir(path)
    THEN Watched(watch(st, resolve_real_path(path), path))
    ELSE Returned(st)

event_handler_create(st, event, path) ==
    IF ~recursive_flag
    THEN Returned(st)
    ELSE IF event.isdir
    THEN Watched(watch(st, path, NoLink))
    ELSE IF ~nosymlink_flag /\ opendir(path)
    THEN Watched(watch(st, resolve_real_path(path), path))
    ELSE Returned(st)

event_handler_delete(st, event, path) ==
    IF event.isdir
    THEN Returned(unwatch(st, path, FALSE))
    ELSE IF ~nosymlink_flag
    THEN Returned(unwatch(st, path, TRUE))
    ELSE Returned(st)

event_handler_moved_from(st, event, path) == event_handler_delete(st, event, path)

\* event_handler_moved_to without the test of root_path
event_handler_moved_to_anywhere(st, event, path) == event_handler_create(st, event, path)

event_handler_moved_to(st, event, path) ==
    IF strncmp0(path, root_path, strlen(root_path))
    THEN event_handler_create(st, event, path)
    ELSE Returned(st)

\* the bits parse_command_line sets when -e is not given
event_mask == {"modify", "create", "delete", "moved_from", "moved_to"}

\* events_lut[ffs(mask) - 1].handler
get_inotify_event(mask, st, event, path) ==
    CASE mask = "create" -> event_handler_create(st, event, path)
      [] mask = "delete" -> event_handler_delete(st, event, path)
      [] mask = "moved_from" -> event_handler_moved_from(st, event, path)
      [] mask = "moved_to" -> event_handler_moved_to(st, event, path)
      [] OTHER -> event_handler_undefined(st, event, path)

regex_catch(str) ==
    IF user_catch_regex.null
    THEN TRUE
    ELSE str \in user_catch_regex.names

\* what the system does in one call of execute_command: fork() succeeds or
\* fails, system() in the child returns exit, and the bytes that follow a
\* record without a name match the exclude expression or do not (junk)
OsChoices ==
    {[fork |-> f, exit |-> e, junk |-> j] :
        f \in IF inline_flag THEN {"ok", "error"} ELSE {"ok"},
        e \in IF inline_flag THEN {0, -1, 127} ELSE {0},
        j \in IF exclude_regex = {} THEN {FALSE} ELSE BOOLEAN}
NoOs == [fork |-> "ok", exit |-> 0, junk |-> FALSE]

\* execute_command_inline that waits for the command and reports its failure
execute_command_inline_wait(st, event_name, file_name, event_p_path) ==
    IF st.os.fork = "error"
    THEN [st |-> [st EXCEPT !.cmds = @ + 1, !.logged = TRUE], ret |-> 0, status |-> "exit"]
    ELSE [st |-> [st EXCEPT !.forked = TRUE, !.cmds = @ + 1, !.logged = TRUE],
          ret |-> IF st.os.exit \in {-1, 127} THEN -1 ELSE 0, status |-> "ok"]

\* the parent's side of fork(): it logs and returns 0, or exit(1) when fork()
\* failed; st.forked says that a child process now exists, st.cmds counts the
\* calls of execute_command
execute_command_inline(st, event_name, file_name, event_p_path) ==
    IF st.os.fork = "error"
    THEN [st |-> [st EXCEPT !.cmds = @ + 1, !.logged = TRUE], ret |-> 0, status |-> "exit"]
    ELSE [st |-> [st EXCEPT !.forked = TRUE, !.cmds = @ + 1, !.logged = TRUE],
          ret |-> 0, status |-> "ok"]

execute_command_embedded(st, event_name, file_name, event_p_path) ==
    [st |-> [st EXCEPT !.cmds = @ + 1, !.logged = TRUE], ret |-> 0, status |-> "ok"]

\* the function pointer parse_command_line sets for -c or -F
execute_command(st, event_name, file_name, event_p_path) ==
    IF inline_flag
    THEN execute_command_inline(st, event_name, file_name, event_p_path)
    ELSE execute_command_embedded(st, event_name, file_name, event_p_path)

(***************************************************************************)
(* monitor(): one record of the buffer.                                    *)
(***************************************************************************)
\* strcpy(path, wd_data->path); strcat(path, event->name); strcat(path, "/")
event_path(wd_data, event) ==
    wd_data.path \o (IF event.name = "" THEN <<>> ELSE <<event.name>>)
                 \o (IF event.isdir THEN <<"/">> ELSE <<>>)

Outcome(st, branch, path, status) ==
    [st |-> st, branch |-> branch, path |-> path, status |-> status]

\* lines 955-958: x is what execute_command returned
monitor_executed(x, path) ==
    IF x.status # "ok"
    THEN Outcome(x.st, "executed", path, x.status)
    ELSE IF x.ret = -1
    THEN Outcome(x.st, "executed", path, "exit")
    ELSE Outcome(x.st, "executed", path, "ok")

\* lines 949-961: h is what the handler returned; st.handler says whether a
\* handler was called for the record and what it returned
monitor_handled(h, event, wd_data, path) ==
    IF h.status # "ok"
    THEN Outcome(h.st, "handled", path, h.status)
    ELSE IF h.ret = 0
    THEN monitor_executed(execute_command([h.st EXCEPT !.handler = "success"],
                                          event.mask, event.name, wd_data.path), path)
    ELSE Outcome([h.st EXCEPT !.handler = "failure"], "handled", path, "ok")

\* lines 936-961: the record's watch descriptor has the entry wd_data
monitor_event(st, event, wd_data, path) ==
    IF event.mask \in event_mask /\ regex_catch(event.name)
    THEN monitor_handled(get_inotify_event(event.mask, [st EXCEPT !.handler = "called"],
                                           event, path), event, wd_data, path)
    ELSE Outcome(st, "filtered", path, "ok")

\* lines 934-946: node is get_node_from_wd(event->wd)
monitor_node(st, event, node) ==
    IF node = 0
    THEN Outcome(st, "unknown_wd", <<>>, "ok")
    ELSE monitor_event(st, event, st.list_wd[node], event_path(st.list_wd[node], event))

\* excluded(event->name): with event->len == 0 the name field is empty and
\* event->name points at the bytes that follow the record
excluded_name(st, event) ==
    IF event.len = 0
    THEN exclude_regex # {} /\ st.os.junk
    ELSE excluded(event.name)

\* the body of the inner while loop for the record event
monitor_record(st, event) ==
    IF excluded_name(st, event)
    THEN Outcome(st, "excluded", <<>>, "ok")
    ELSE monitor_node(st, event, get_node_from_wd(st.list_wd, event.wd))

\* byte offset of the record after the first k records of buf
RECURSIVE Offset(_, _)
Offset(buf, k) == IF k = 0 THEN 0 ELSE Offset(buf, k - 1) + EVENT_SIZE + buf[k].len

\* the record that starts at byte idx of buf, 0 when none starts there
RecordIndex(buf, idx) == FirstIndex({k \in 1..Len(buf) : Offset(buf, k - 1) = idx})

\* what (struct inotify_event*) &buffer[i] is when i is not the start of a record
Garbage == Record(-1, "none", FALSE, "")

\* event = (struct inotify_event*) &buffer[idx]
event_at(buf, idx) ==
    IF RecordIndex(buf, idx) = 0 THEN Garbage ELSE buf[RecordIndex(buf, idx)]

NoEvent == Record(0, "none", FALSE, "")
NoLast == [event |-> NoEvent, branch |-> "none", path |-> <<>>, pre |-> <<>>,
           calls |-> <<>>, status |-> "ok", fork |-> "ok", cmds |-> 0,
           handler |-> "none", logged |-> FALSE, requeued |-> FALSE]

\* the state a call of the process with the table lw works on
Process(lw, os) ==
    [list_wd |-> lw, kwatch |-> kwatch, next_wd |-> next_wd, queue |-> queue,
     calls |-> <<>>, os |-> os, forked |-> FALSE, cmds |-> 0, handler |-> "none",
     logged |-> FALSE, requeued |-> FALSE]

Cur == Process(list_wd, NoOs)

Install(st) ==
    /\ list_wd' = st.list_wd
    /\ kwatch' = st.kwatch
    /\ next_wd' = st.next_wd
    /\ queue' = st.queue

(***************************************************************************)
(* The program.                                                            *)
(***************************************************************************)
MainDone(r) ==
    /\ Install(r.st)
    /\ pc' = IF r.status # "ok" THEN r.status
             ELSE IF r.ret = -1 THEN "exit" ELSE "read"

\* start-up: watch(root_path, NULL), then monitor()
Main ==
    /\ pc = "main"
    /\ MainDone(watch(Cur, root_path, NoLink))
    /\ UNCHANGED <<fsvars, cfgvars, loopvars, children, ops>>

\* size_t, of 16 bits here: the offsets of the model stay far below it
SIZE_T == 65536
\* the value a size_t holds after the assignment of n
to_size_t(n) == n % SIZE_T

\* lines 914-923 after read() returned n: where monitor() goes on.  len is
\* unsigned, so len < 0 is false for every n
after_read(n) ==
    IF to_size_t(n) = 0 THEN "return"
    ELSE IF to_size_t(n) < 0 THEN "exit"
    ELSE IF 0 < to_size_t(n) THEN "decode"
    ELSE "read"

\* read() fails and returns -1: the buffer keeps what the last read left
ReadError ==
    /\ pc = "read"
    /\ ops < MaxOps
    /\ ops' = ops + 1
    /\ len' = to_size_t(-1)
    /\ i' = 0
    /\ trace' = <<>>
    /\ pc' = after_read(-1)
    /\ UNCHANGED <<fsvars, cfgvars, kwatch, next_wd, queue, list_wd, buffer, last, children>>

\* len = read(fd, buffer, EVENT_BUF_LEN) returns every record that is queued
Read ==
    /\ pc = "read"
    /\ queue # <<>>
    /\ buffer' = queue
    /\ queue' = <<>>
    /\ len' = to_size_t(Offset(queue, Len(queue)))
    /\ i' = 0
    /\ trace' = <<>>
    /\ pc' = after_read(Offset(queue, Len(queue)))
    /\ UNCHANGED <<fsvars, cfgvars, kwatch, next_wd, list_wd, last, children, ops>>

\* next_event that forgets the name field of a record with an unknown wd
next_event_short(idx, event, branch) ==
    IF branch = "unknown_wd" THEN idx + EVENT_SIZE ELSE idx + EVENT_SIZE + event.len

\* i += EVENT_SIZE + event->len, of lines 929, 944 and 964
next_event(idx, event, branch) == idx + EVENT_SIZE + event.len

\* the child fork() made in a process that is at byte idx of its buffer buf:
\* a copy of the process, about to call system(), which will return exit
Forked(st, buf, n, idx) ==
    [pc |-> "command", list_wd |-> st.list_wd, buffer |-> buf, len |-> n, i |-> idx,
     exit |-> st.os.exit, unable |-> FALSE, inherited |-> TRUE, cmds |-> 0]

\* the followed processes after a call that may have forked
fork_children(procs, st, buf, n, idx) ==
    IF st.forked /\ Len(procs) < MaxChildren
    THEN Append(procs, Forked(st, buf, n, idx))
    ELSE procs

\* lines 924-965 for the record event; r is what its processing gave
Decoded(event, r) ==
    /\ Install(r.st)
    /\ children' = fork_children(children, r.st, buffer, len, i)
    /\ last' = [event |-> event, branch |-> r.branch, path |-> r.path,
                pre |-> list_wd, calls |-> r.st.calls, status |-> r.status,
                fork |-> r.st.os.fork, cmds |-> r.st.cmds, handler |-> r.st.handler,
                logged |-> r.st.logged, requeued |-> r.st.requeued]
    /\ trace' = Append(trace, [rec |-> RecordIndex(buffer, i), branch |-> r.branch])
    /\ i' = IF r.status = "ok" THEN next_event(i, event, r.branch) ELSE i
    /\ pc' = IF r.status # "ok" THEN r.status
             ELSE IF next_event(i, event, r.branch) < len THEN "decode" ELSE "read"

\* one turn of while (i < len)
Decode ==
    /\ pc = "decode"
    /\ RecordIndex(buffer, i) # 0
    /\ \E os \in OsChoices :
          Decoded(event_at(buffer, i),
                  monitor_record(Process(list_wd, os), event_at(buffer, i)))
    /\ UNCHANGED <<fsvars, cfgvars, buffer, len, ops>>

\* what bytes that no read delivered may look like: a record an earlier,
\* longer read left in the buffer
Spurious == {Record(1, "delete", TRUE, "d")}

\* one turn of while (i < len) with &buffer[i] at bytes that no read
\* delivered: they are taken for a record, or the process faults
DecodeGarbage ==
    /\ pc = "decode"
    /\ RecordIndex(buffer, i) = 0
    /\ \/ /\ pc' = "fault"
          /\ UNCHANGED <<kwatch, next_wd, queue, list_wd, loopvars, children, ops>>
       \/ /\ ops < MaxOps
          /\ ops' = ops + 1
          /\ \E e \in Spurious, os \in OsChoices :
                Decoded(e, monitor_record(Process(list_wd, os), e))
          /\ UNCHANGED <<buffer, len>>
    /\ UNCHANGED <<fsvars, cfgvars>>

(***************************************************************************)
(* A child process of execute_command_inline: lines 988-1003 in the child, *)
(* then return 0 at line 1012, back in the loop of monitor().  It owns a   *)
(* copy of the table and of the buffer, and shares the inotify descriptor. *)
(***************************************************************************)
\* system() returned exit; the child logs a failure, returns 0 and is at line 964
child_returned(proc) ==
    [proc EXCEPT !.unable = proc.exit \in {-1, 127},
                 !.i = next_event(proc.i, event_at(proc.buffer, proc.i), "executed"),
                 !.pc = IF next_event(proc.i, event_at(proc.buffer, proc.i), "executed")
                           < proc.len
                        THEN "decode" ELSE "read"]

ChildCommand(c) ==
    /\ c \in 1..Len(children)
    /\ children[c].pc = "command"
    /\ children' = [children EXCEPT ![c] = child_returned(@)]
    /\ UNCHANGED <<fsvars, cfgvars, kwatch, next_wd, queue, list_wd, loopvars, pc, ops>>

\* one turn of while (i < len) in the child; cmds counts its calls of
\* execute_command for records of the buffer it was forked with
child_decoded(proc, event, r) ==
    [proc EXCEPT !.list_wd = r.st.list_wd,
                 !.cmds = IF proc.inherited THEN @ + r.st.cmds ELSE @,
                 !.i = IF r.status = "ok" THEN next_event(proc.i, event, r.branch) ELSE proc.i,
                 !.pc = IF r.status # "ok" THEN r.status
                        ELSE IF next_event(proc.i, event, r.branch) < proc.len
                        THEN "decode" ELSE "read"]

ChildDecoded(c, event, r) ==
    /\ kwatch' = r.st.kwatch
    /\ next_wd' = r.st.next_wd
    /\ queue' = r.st.queue
    /\ children' = fork_children([children EXCEPT ![c] = child_decoded(@, event, r)],
                                 r.st, children[c].buffer, children[c].len, children[c].i)

ChildDecode(c) ==
    /\ c \in 1..Len(children)
    /\ children[c].pc = "decode"
    /\ RecordIndex(children[c].buffer, children[c].i) # 0
    /\ \E os \in OsChoices :
          ChildDecoded(c, event_at(children[c].buffer, children[c].i),
                       monitor_record(Process(children[c].list_wd, os),
                                      event_at(children[c].buffer, children[c].i)))
    /\ UNCHANGED <<fsvars, cfgvars, list_wd, loopvars, pc, ops>>

\* the child at bytes that no read delivered: it is not followed further
ChildFault(c) ==
    /\ c \in 1..Len(children)
    /\ children[c].pc = "decode"
    /\ RecordIndex(children[c].buffer, children[c].i) = 0
    /\ children' = [children EXCEPT ![c].pc = "fault"]
    /\ UNCHANGED <<fsvars, cfgvars, kwatch, next_wd, queue, list_wd, loopvars, pc, ops>>

\* the child's read() on the inotify descriptor it shares with its parent
ChildRead(c) ==
    /\ c \in 1..Len(children)
    /\ children[c].pc = "read"
    /\ queue # <<>>
    /\ children' = [children EXCEPT ![c].buffer = queue,
                                    ![c].len = Offset(queue, Len(queue)),
                                    ![c].i = 0,
                                    ![c].inherited = FALSE,
                                    ![c].pc = "decode"]
    /\ queue' = <<>>
    /\ UNCHANGED <<fsvars, cfgvars, kwatch, next_wd, list_wd, loopvars, pc, ops>>

(***************************************************************************)
(* The file system changing under the program.                             *)
(***************************************************************************)
Running == pc \in {"read", "decode"} /\ ops < MaxOps

Elsewhere == <<"?">>

\* x, below p, after p was renamed to q
Moved(x, p, q) == q \o SubSeq(x, Len(p) + 1, Len(x))

FsStep(ds, ls, kw, recs) ==
    /\ dirs' = ds
    /\ links' = ls
    /\ kwatch' = kw
    /\ queue' = queue \o recs
    /\ ops' = ops + 1
    /\ UNCHANGED <<cfgvars, loopvars, next_wd, list_wd, pc, children>>

Mkdir(p) ==
    /\ Running
    /\ p \in DirU \ dirs
    /\ ParentOf(p) \in dirs
    /\ FsStep(dirs \cup {p}, links, kwatch,
              Notify(kwatch, ParentOf(p), "create", TRUE, NameOf(p)))

Rmdir(p) ==
    /\ Running
    /\ p \in dirs \ FixedDirs
    /\ \A q \in dirs : Under(q, p) => q = p
    /\ \A l \in LinkU : links[l] # NoLink => ParentOf(l) # p
    /\ FsStep(dirs \ {p}, links,
              [w \in {v \in DOMAIN kwatch : kwatch[v] # p} |-> kwatch[w]],
              Notify(kwatch, ParentOf(p), "delete", TRUE, NameOf(p))
                \o Notify(kwatch, p, "ignored", FALSE, ""))

\* mv p q: the subtree of p, its links and the watches on it go with it
Rename(p, q) ==
    /\ Running
    /\ p \in dirs \ (FixedDirs \cup {root_path})
    /\ q \in DirU \ dirs
    /\ ParentOf(q) \in dirs
    /\ ParentOf(q) = ParentOf(p) \/ NameOf(q) = NameOf(p)
    /\ ~Under(q, p)
    /\ \A x \in dirs : Under(x, p) => Moved(x, p, q) \in DirU
    /\ \A l \in LinkU : (links[l] # NoLink /\ Under(l, p)) => Moved(l, p, q) \in LinkU
    /\ FsStep({x \in dirs : ~Under(x, p)} \cup {Moved(x, p, q) : x \in {y \in dirs : Under(y, p)}},
              [l \in LinkU |->
                  IF Under(l, q) /\ Moved(l, q, p) \in LinkU THEN links[Moved(l, q, p)]
                  ELSE IF Under(l, p) THEN NoLink
                  ELSE links[l]],
              [w \in DOMAIN kwatch |->
                  IF Under(kwatch[w], p) THEN Moved(kwatch[w], p, q) ELSE kwatch[w]],
              Notify(kwatch, ParentOf(p), "moved_from", TRUE, NameOf(p))
                \o Notify(kwatch, ParentOf(q), "moved_to", TRUE, NameOf(q)))

\* mv p to a place outside the modelled tree: its watches stay, and stay silent
MoveOut(p) ==
    /\ Running
    /\ p \in dirs \ FixedDirs
    /\ FsStep({x \in dirs : ~Under(x, p)},
              [l \in LinkU |-> IF Under(l, p) THEN NoLink ELSE links[l]],
              [w \in DOMAIN kwatch |->
                  IF Under(kwatch[w], p) THEN Elsewhere ELSE kwatch[w]],
              Notify(kwatch, ParentOf(p), "moved_from", TRUE, NameOf(p)))

\* the kernel's queue is full: it queues IN_Q_OVERFLOW with wd -1
Overflow ==
    /\ Running
    /\ FsStep(dirs, links, kwatch, <<Record(-1, "q_overflow", FALSE, "")>>)

Symlink(l, t) ==
    /\ Running
    /\ l \in LinkU
    /\ links[l] = NoLink
    /\ ParentOf(l) \in dirs
    /\ t \in TargetsOf(l)
    /\ FsStep(dirs, [links EXCEPT ![l] = t], kwatch,
              Notify(kwatch, ParentOf(l), "create", FALSE, NameOf(l)))

Unlink(l) ==
    /\ Running
    /\ l \in LinkU
    /\ links[l] # NoLink
    /\ FsStep(dirs, [links EXCEPT ![l] = NoLink], kwatch,
              Notify(kwatch, ParentOf(l), "delete", FALSE, NameOf(l)))

(***************************************************************************)
(* Specification.                                                          *)
(***************************************************************************)
\* symbolic links that exist when the program starts
MaxInitLinks == 1

Init ==
    /\ dirs \in InitTrees
    /\ links \in {ls \in [LinkU -> TargetU \cup {NoLink}] :
                    /\ Cardinality({l \in LinkU : ls[l] # NoLink}) <= MaxInitLinks
                    /\ \A l \in LinkU : ls[l] # NoLink =>
                          ParentOf(l) \in dirs /\ ls[l] \in TargetsOf(l)}
    /\ kwatch = <<>>
    /\ next_wd = 1
    /\ queue = <<>>
    /\ root_path = DirW
    /\ \E c \in Configs :
          /\ recursive_flag = c[1]
          /\ nosymlink_flag = c[2]
          /\ exclude_regex = c[3]
          /\ refused = c[4]
          /\ closed = c[5]
          /\ user_catch_regex = c[6]
          /\ inline_flag = c[7]
    /\ list_wd = <<>>
    /\ buffer = <<>>
    /\ len = 0
    /\ i = 0
    /\ pc = "main"
    /\ last = NoLast
    /\ trace = <<>>
    /\ children = <<>>
    /\ ops = 0

Next ==
    \/ Main
    \/ Read
    \/ ReadError
    \/ Decode
    \/ DecodeGarbage
    \/ \E c \in 1..MaxChildren : ChildCommand(c)
    \/ \E c \in 1..MaxChildren : ChildDecode(c)
    \/ \E c \in 1..MaxChildren : ChildFault(c)
    \/ \E c \in 1..MaxChildren : ChildRead(c)
    \/ Overflow
    \/ \E p \in DirU : Mkdir(p)
    \/ \E p \in DirU : Rmdir(p)
    \/ \E p \in DirU, q \in DirU : Rename(p, q)
    \/ \E p \in DirU : MoveOut(p)
    \/ \E l \in LinkU, t \in TargetU : Symlink(l, t)
    \/ \E l \in LinkU : Unlink(l)

Spec == Init /\ [][Next]_vars

(***************************************************************************)
(* Properties.                                                             *)
(***************************************************************************)
Paths(lw) == {lw[k].path : k \in 1..Len(lw)}
Entries(lw) == {lw[k] : k \in 1..Len(lw)}
\* the link paths held by the entries of lw
LinkRefs(lw) ==
    UNION {{lw[k].links[n].path : n \in 1..Len(lw[k].links)} : k \in 1..Len(lw)}
\* monitor() is in its loop
Looping == pc \in {"read", "decode"}
\* the last record went through its handler, which returned
Handled(masks) ==
    /\ last.branch = "executed"
    /\ last.status = "ok"
    /\ last.event.mask \in masks

\* C1: no two entries of the watch table have the same path, and
\* add_to_watch_list on a registered path returns the entry that is there and
\* adds none.
C1_Uniqueness ==
    /\ \A a, b \in 1..Len(list_wd) : list_wd[a].path = list_wd[b].path => a = b
    /\ \A k \in 1..Len(list_wd) :
          add_to_watch_list(Cur, list_wd[k].path, NoLink) = [st |-> Cur, node |-> k]

\* a create or moved-to record was dispatched for a link whose target was in the
\* table already: the link was attached and no entry added
C1_Witness ==
    /\ Handled({"create", "moved_to"})
    /\ Len(list_wd) = Len(last.pre)
    /\ list_wd # last.pre
    /\ Len(list_wd) >= 2

\* C2: symbolic-link operations never take the root entry out of the table:
\* neither a call of unwatch_symbolic_link nor the handler of a create, delete,
\* moved-from or moved-to record of a non-directory.
C2_RootPermanence ==
    /\ \A c \in 1..Len(last.calls) :
          root_path \in Paths(last.calls[c].pre) => root_path \in Paths(last.calls[c].post)
    /\ (/\ last.branch \in {"handled", "executed"}
        /\ ~last.event.isdir
        /\ root_path \in Paths(last.pre)) => root_path \in Paths(list_wd)

\* the removal of a link orphaned every entry but the root, an ancestor of the
\* root among them
C2_Witness ==
    /\ Handled({"delete"})
    /\ ~last.event.isdir
    /\ \E c \in 1..Len(last.calls) :
          /\ last.calls[c].reclaim
          /\ is_child_of(root_path, last.calls[c].path)
    /\ Len(last.pre) >= 2
    /\ Paths(list_wd) = {root_path}

\* C3: while monitor() is in its loop exactly one entry has the path root_path.
C3_RootInvariant ==
    Looping => Cardinality({k \in 1..Len(list_wd) : list_wd[k].path = root_path}) = 1

\* p is q or a path below q
AtOrBelow(p, q) == Len(q) <= Len(p) /\ SubSeq(p, 1, Len(q)) = q
\* the paths of the entries that hold a link after the call c
LivePaths(c) == {e.path : e \in {x \in Entries(c.post) : x.links # <<>>}}
Covered(c, p) == \E q \in LivePaths(c) : AtOrBelow(p, q)
\* the call c of unwatch_symbolic_link removed every entry at or below its
\* entry that no entry holding a link covers (the root entry too unless
\* keep_root) and kept every other entry
Reclaimed(c, keep_root) ==
    \A k \in 1..Len(c.pre) :
        IF /\ AtOrBelow(c.pre[k].path, c.path)
           /\ ~Covered(c, c.pre[k].path)
           /\ ~(keep_root /\ c.pre[k].path = root_path)
        THEN c.pre[k].path \notin Paths(c.post)
        ELSE c.pre[k].path \in Paths(c.post)

\* C4 as stated: when unwatch_symbolic_link removes the last link of an entry D
\* that is not under root_path, D and every entry below D that is not at or
\* below an entry still holding a link are gone, and every other entry is
\* still there.
C4_Original ==
    \A c \in 1..Len(last.calls) :
        last.calls[c].reclaim => Reclaimed(last.calls[c], FALSE)

\* C4: when unwatch_symbolic_link removes the last link of an entry D that is
\* not under root_path, D and every entry below D other than the root entry
\* that is not at or below an entry still holding a link are gone, and every
\* other entry, the root entry among them, is still there.
C4_Reachability ==
    \A c \in 1..Len(last.calls) :
        last.calls[c].reclaim => Reclaimed(last.calls[c], TRUE)

\* the last link of D was removed, D was released, and an entry below D that
\* holds a link of its own stayed
C4_Witness ==
    \E c \in 1..Len(last.calls) :
        /\ last.calls[c].reclaim
        /\ last.calls[c].path \notin Paths(last.calls[c].post)
        /\ \E q \in LivePaths(last.calls[c]) :
              q # last.calls[c].path /\ AtOrBelow(q, last.calls[c].path)

\* C5: every call of watch() returns: its traversal never comes back for ever
\* to a queue and a table it has been in.
C5_CycleSafety == pc # "hung"

\* watch(P, NULL) returned r; unwatch(P, FALSE) then gives back the entries,
\* with their watch descriptors and links, that the table held before
RoundTrip(r, P) ==
    (r.status = "ok" /\ r.ret = 0) =>
        Entries(unwatch(r.st, P, FALSE).list_wd) = Entries(list_wd)

\* C6: in recursive mode, for every directory P that has no entry,
\* watch(P, NULL) followed by unwatch(P, FALSE) leaves the entries, watch
\* descriptors and links of the table as they were.
C6_RoundTrip ==
    (Looping /\ recursive_flag) =>
        \A P \in dirs :
            get_node_from_path(list_wd, P) = 0 => RoundTrip(watch(Cur, P, NoLink), P)

\* this step of monitor() handled a delete or moved-from record of a
\* directory that had an entry
RemovedDir ==
    /\ Len(trace') = Len(trace) + 1
    /\ last'.branch \in {"handled", "executed"}
    /\ last'.event.mask \in {"delete", "moved_from"}
    /\ last'.event.isdir
    /\ last'.path \in Paths(list_wd)

\* C7: when the handler of a delete or moved-from record of a registered
\* directory P returns, no entry is left for P or for a path below P that is
\* no directory any more.
C7_Prunes ==
    [][RemovedDir =>
          \A k \in 1..Len(list_wd) :
              (AtOrBelow(list_wd[k].path, last'.path) /\ list_wd[k].path \notin dirs)
                  => list_wd[k].path \notin Paths(list_wd')]_vars

NoExcludedName(p) == \A t \in 1..Len(p) : p[t] \notin exclude_regex

\* C8: no entry is registered for a path with a name that matches the exclude
\* pattern, and no entry is registered or referenced through a symbolic link
\* whose name matches it.
C8_Exclusion ==
    /\ \A p \in Paths(list_wd) : NoExcludedName(p)
    /\ \A p \in LinkRefs(list_wd) : NoExcludedName(p)

\* the last read() failed: len holds (size_t) -1
ReadFailed == len = to_size_t(-1)

\* C9: the records of a buffer that a read returned are processed once each
\* and in order, the index is at the start of the next record after every
\* record on every branch, and the loop ends with the index equal to the
\* number of bytes read.
C9_Framing ==
    (Looping /\ ~ReadFailed) =>
        /\ \A t \in 1..Len(trace) : trace[t].rec = t
        /\ i = Offset(buffer, Len(trace))
        /\ pc = "decode" => i < len
        /\ pc = "read" => (i = len /\ Len(trace) = Len(buffer))

\* a buffer of records of different lengths was processed to its end, one
\* record through its handler and the command and one dropped for its wd
C9_Witness ==
    /\ pc = "read"
    /\ ~ReadFailed
    /\ Len(buffer) >= 2
    /\ i = len
    /\ \E t \in 1..Len(trace) : trace[t].branch = "executed"
    /\ \E t \in 1..Len(trace) : trace[t].branch = "unknown_wd" /\ buffer[t].len > 0
    /\ \E t \in 1..Len(buffer) : buffer[t].len = 0

\* C10: every entry whose path is not root_path and not under root_path holds
\* a link or lies below an entry that holds one.
C10_Reachability ==
    \A k \in 1..Len(list_wd) :
        (list_wd[k].path # root_path /\ ~AtOrBelow(list_wd[k].path, root_path)) =>
            \E j \in 1..Len(list_wd) :
                list_wd[j].links # <<>> /\ AtOrBelow(list_wd[k].path, list_wd[j].path)

\* the directories one step of traversal adds to the set R: the subdirectories
\* and the targets of the links of a directory of R, by names not excluded
ReachStep(R) ==
    R \cup {d \in dirs : ParentOf(d) \in R /\ ~excluded(NameOf(d))}
      \cup {links[l] : l \in {x \in LinkU : /\ links[x] # NoLink
                                            /\ links[x] \in dirs
                                            /\ ParentOf(x) \in R
                                            /\ ~excluded(NameOf(x))}}

RECURSIVE ReachFrom(_)
ReachFrom(R) == IF ReachStep(R) = R THEN R ELSE ReachFrom(ReachStep(R))

\* the directories that exist under root_path or are reached from it through
\* existing symbolic links
Reachable == ReachFrom({root_path} \cap dirs)

\* every record queued so far has been dispatched
Quiescent == pc = "read" /\ queue = <<>>

\* C11: in recursive link-following mode with every registration granted,
\* once every queued record has been dispatched the registered paths are the
\* non-excluded directories that exist under root_path or are reached from it
\* through existing symbolic links.
C11_Synchronized ==
    (Quiescent /\ recursive_flag /\ ~nosymlink_flag /\ refused = {} /\ closed = {}) =>
        Paths(list_wd) = Reachable

\* C12: no process that fork() made in execute_command_inline is ever in the
\* loop of monitor(), reading the notification channel or decoding records.
C12_SingleOwner ==
    \A c \in 1..Len(children) : children[c].pc \notin {"read", "decode"}

\* C15: when read() fails, monitor() ends the process: no record of the buffer
\* is decoded, no handler and no command runs for that read.
C15_ReadErrorFatal == ReadFailed => (pc = "exit" /\ trace = <<>>)

\* the directories reached from root_path when the directory S is not read
RECURSIVE ReachSkipping(_, _)
ReachSkipping(R, S) ==
    IF ReachStep(R \ {S}) \cup R = R THEN R ELSE ReachSkipping(ReachStep(R \ {S}) \cup R, S)

\* the start-up call of watch() is over and nothing has happened since
StartedUp == pc # "main" /\ ops = 0

\* C13: when the kernel grants no watch for a directory S that the start-up
\* traversal meets, the process goes on, S gets no entry, and every directory
\* below S that is registered was reached by a way that does not read S.
C13_SkipsSubtree ==
    StartedUp =>
        \A S \in refused \ {root_path} :
            /\ pc # "exit"
            /\ S \notin Paths(list_wd)
            /\ \A p \in Paths(list_wd) :
                   Under(p, S) => p \in ReachSkipping({root_path}, S)

\* C14: the process never ends because watch() could not open a directory of
\* its traversal: it ends only when fork() failed for the command.
C14_SoftFail == pc = "exit" => last.fork = "error"

\* the record passes the filters of monitor(): its name does not match the
\* exclude expression, its wd has an entry in the table lw, its kind is in the
\* configured mask, and there is no catch expression or the name matches it
Accepted(event, lw) ==
    /\ event.name \notin exclude_regex
    /\ event.wd \in {lw[k].wd : k \in 1..Len(lw)}
    /\ event.mask \in event_mask
    /\ user_catch_regex.null \/ event.name \in user_catch_regex.names

\* the watcher's part of C16, for the record it decoded last
AcceptedOnce ==
    last.branch # "none" =>
        /\ last.cmds = (IF Accepted(last.event, last.pre) /\ last.handler = "success"
                        THEN 1 ELSE 0)
        /\ Accepted(last.event, last.pre) => last.handler # "none"
        /\ ~Accepted(last.event, last.pre) =>
               last.handler = "none" /\ list_wd = last.pre

\* C16: for every decoded record, execute_command is called once when the
\* record passed every filter and its handler returned 0, and not at all
\* otherwise; for a record that a filter rejected no handler was called and
\* the table is as it was.  The watcher decodes every record of its buffer,
\* so no other process calls execute_command for a record of that buffer.
C16_Acceptance ==
    /\ AcceptedOnce
    /\ \A c \in 1..Len(children) : children[c].cmds = 0

\* C17: a call of execute_command ends the watcher only when fork() failed;
\* when fork() succeeded the watcher goes on with its loop whatever system()
\* returns in the child, and the child logs a return of -1 or 127.
C17_CommandFailure ==
    /\ (last.cmds = 1 /\ last.status = "exit") => last.fork = "error"
    /\ (last.cmds = 1 /\ last.fork = "ok") => last.status = "ok"
    /\ \A c \in 1..Len(children) :
           children[c].pc # "command" =>
               (children[c].unable <=> children[c].exit \in {-1, 127})

\* the command of the record decoded last failed in the child, which logged
\* it, and the watcher is in its loop
C17_Witness ==
    /\ inline_flag
    /\ last.cmds = 1
    /\ last.fork = "ok"
    /\ pc \in {"read", "decode"}
    /\ \E c \in 1..Len(children) :
           children[c].exit \in {-1, 127} /\ children[c].unable

\* C18: for a queue-overflow record (wd -1, IN_Q_OVERFLOW) the watcher writes
\* a message, leaves the table with its entries and their links as it was,
\* and goes on with its loop.
C18_Overflow ==
    last.event.mask = "q_overflow" =>
        /\ last.logged
        /\ list_wd = last.pre
        /\ last.status = "ok"

\* C19: no two entries of the table carry the same watch descriptor.
C19_WdUniqueness ==
    \A j, k \in 1..Len(list_wd) : list_wd[j].wd = list_wd[k].wd => j = k

\* C20: the traversal of watch() never puts on its queue the target of a
\* symbolic link when that target already has an entry.
C20_NoRetraversal == ~last.requeued

\* the places <<entry, link>> of the table where the symbolic link l is attached
Attached(lw, l) ==
    {<<k, n>> \in (1..Len(lw)) \X (1..Cardinality(LinkU) + 2) :
        n <= Len(lw[k].links) /\ lw[k].links[n].path = l}

\* C21: a symbolic link is attached at most once in the whole table.
C21_NoDuplicateLinks ==
    \A l \in LinkU : Cardinality(Attached(list_wd, l)) <= 1

\* the table lw without the link at link_node = <<entry, link>>
WithoutLink(lw, link_node) ==
    [lw EXCEPT ![link_node[1]].links =
        SubSeq(@, 1, link_node[2] - 1) \o SubSeq(@, link_node[2] + 1, Len(@))]

\* the entry of the call c keeps being watched: it has another link or is
\* under root_path
StaysWatched(c) ==
    \E k \in 1..Len(c.pre) :
        /\ c.pre[k].path = c.path
        /\ \/ Len(c.pre[k].links) > 1
           \/ Under(c.path, root_path)

\* C22: a call of unwatch_symbolic_link whose entry has another link or is
\* under root_path takes the one link off its entry and changes nothing else
\* of the table.
C22_RemovalStops ==
    \A c \in 1..Len(last.calls) :
        StaysWatched(last.calls[c]) =>
            last.calls[c].post =
                WithoutLink(last.calls[c].pre,
                            get_link_node_from_path(last.calls[c].pre, last.calls[c].link))

\* a link to a directory under root_path was removed while that directory
\* and a directory below it were registered
C22_Witness ==
    \E c \in 1..Len(last.calls) :
        /\ StaysWatched(last.calls[c])
        /\ last.calls[c].path # root_path
        /\ \E p \in Paths(last.calls[c].post) :
               p # last.calls[c].path /\ Under(p, last.calls[c].path)

\* the watcher's step for a moved-to record whose handler was called
MovedToStep ==
    /\ pc = "decode"
    /\ trace' # trace
    /\ last'.event.mask = "moved_to"
    /\ last'.handler # "none"

\* C23: a moved-to record whose path does not begin with root_path leaves the
\* table as it is, and one whose path begins with root_path changes the table
\* as event_handler_create does for the same record and path.
C23_MovedTo ==
    [][MovedToStep =>
          IF Under(last'.path, root_path)
          THEN list_wd' = event_handler_create(Cur, last'.event, last'.path).st.list_wd
          ELSE list_wd' = list_wd]_vars

\* a directory was moved into a watched directory outside root_path and the
\* record was handled
C23_Witness ==
    /\ last.event.mask = "moved_to"
    /\ last.event.isdir
    /\ last.handler = "success"
    /\ recursive_flag
    /\ ~Under(last.path, root_path)
    /\ last.path \in dirs
    /\ last.path \notin Paths(list_wd)

\* the links attached in the table lw, other than L, that still exist in a
\* directory registered in lw
LiveRefs(lw, L) ==
    {l \in LinkRefs(lw) \ {L} : links[l] # NoLink /\ ParentOf(l) \in Paths(lw)}

\* the entry that holds the link l in lw, <<>> when none does
OwnerOf(lw, l) ==
    IF get_link_node_from_path(lw, l) = NULL THEN <<>>
    ELSE lw[get_link_node_from_path(lw, l)[1]].path

\* C24: when the delete of a symbolic link L was handled by unwatch(L, TRUE),
\* every other link that was attached, still exists and lies in a directory
\* that is still registered is still attached to its entry.
C24_KeepsLiveRefs ==
    (/\ last.event.mask \in {"delete", "moved_from"}
     /\ ~last.event.isdir
     /\ last.handler = "success"
     /\ ~nosymlink_flag) =>
        \A l \in LiveRefs(last.pre, last.path) :
            ParentOf(l) \in Paths(list_wd) =>
                /\ OwnerOf(list_wd, l) = OwnerOf(last.pre, l)
                /\ OwnerOf(list_wd, l) \in Paths(list_wd)

\* C25: no call of unwatch_symbolic_link releases an entry whose path is
\* root_path or below it.
C25_ReclaimOutsideRoot ==
    \A c \in 1..Len(last.calls) :
        \A p \in Paths(last.calls[c].pre) :
            Under(p, root_path) => p \in Paths(last.calls[c].post)

\* the record decoded last was handled by event_handler_delete, which called
\* unwatch for a path that is no entry (directory bit) or no attached link
AbsentTarget ==
    /\ last.event.mask \in {"delete", "moved_from"}
    /\ last.handler = "success"
    /\ IF last.event.isdir
       THEN last.path \notin Paths(last.pre)
       ELSE ~nosymlink_flag /\ last.path \notin LinkRefs(last.pre)

\* C26: unwatch(P, FALSE) for a path P that has no entry, and unwatch(P, TRUE)
\* for a path P that is no attached link, leave the table as it is.
\* Applied twice, unwatch(P, FALSE) gives the table it gives applied once.
C26_AbsentNoOp ==
    /\ AbsentTarget => list_wd = last.pre
    /\ \A P \in DirU :
           unwatch(unwatch(Cur, P, FALSE), P, FALSE).list_wd = unwatch(Cur, P, FALSE).list_wd

\* the delete of a directory that has no entry, and of a file that is no
\* link, with a table that holds more than the root entry
C26_Witness ==
    /\ AbsentTarget
    /\ last.event.isdir
    /\ Len(list_wd) > 1
    /\ LinkRefs(list_wd) # {}

\* the table holds the root entry, without links, and nothing else
OnlyRoot(lw) == Len(lw) = 1 /\ lw[1].path = root_path /\ lw[1].links = <<>>

\* C27: with recursive mode off the table holds exactly the root entry with no
\* link, from the end of the start-up call on.
C27_FixedTable == (~recursive_flag /\ pc # "main") => OnlyRoot(list_wd)

\* with recursive mode off the create record of a directory that exists was
\* handled, and a delete or moved record after it
C27_Witness ==
    /\ ~recursive_flag
    /\ OnlyRoot(list_wd)
    /\ Len(trace) > 1
    /\ trace[1].rec # 0
    /\ buffer[trace[1].rec].mask = "create"
    /\ buffer[trace[1].rec].isdir
    /\ trace[1].branch = "executed"
    /\ last.event.mask \in {"delete", "moved_from", "moved_to"}
    /\ last.handler = "success"

\* C28: with link-following disabled every entry's path begins with root_path
\* and no entry has a link.
C28_NoLinkMode ==
    nosymlink_flag =>
        \A k \in 1..Len(list_wd) :
            Under(list_wd[k].path, root_path) /\ list_wd[k].links = <<>>

\* with link-following disabled a link to a directory outside the root was
\* created in a registered directory and its record was handled
C28_Witness ==
    /\ nosymlink_flag
    /\ last.event.mask = "create"
    /\ ~last.event.isdir
    /\ last.handler = "success"
    /\ last.path \in LinkU
    /\ links[last.path] \in dirs
    /\ ~Under(links[last.path], root_path)
    /\ Len(list_wd) > 1

\* every link of the table lw names the entry that holds it, and no other
\* entry of lw has that path
BackReferences(lw) ==
    \A k \in 1..Len(lw) : \A n \in 1..Len(lw[k].links) :
        /\ lw[k].links[n].wd_data = lw[k].path
        /\ \A j \in 1..Len(lw) : lw[j].path = lw[k].path => j = k

\* the links of the entries of lw whose path has no entry in the table after
LinksOfRemoved(lw, after) ==
    UNION {{lw[k].links[n].path : n \in 1..Len(lw[k].links)} :
              k \in {j \in 1..Len(lw) : lw[j].path \notin Paths(after)}}

\* C29: every link of the table is held by the entry its back-reference
\* names, and after a step that removes entries none of their links is found
\* by get_link_data_from_path.
C29_NoDangling ==
    [][/\ BackReferences(list_wd')
       /\ \A l \in LinksOfRemoved(list_wd, list_wd') :
              get_link_data_from_path(list_wd', l) = NULL]_vars

\* the entry of a link target was removed with its link by unwatch(path, FALSE)
\* while another entry holds a link
C29_Witness ==
    /\ last.event.mask \in {"delete", "moved_from"}
    /\ last.event.isdir
    /\ last.handler = "success"
    /\ LinksOfRemoved(last.pre, list_wd) # {}
    /\ LinkRefs(list_wd) # {}
    /\ BackReferences(list_wd)

====
